---- MODULE Spec2Model ----
(***************************************************************************)
(* Auth service of kong_microservices: the in-memory user store, the token *)
(* blacklist and the request handlers of routes/auth_routes.py and         *)
(* routes/token_routes.py.                                                 *)
(*                                                                         *)
(* Time is the UTC clock in whole ticks.  uuid.uuid4() is a fresh value    *)
(* taken from a counter.  A JWT string is the triple (form, sig, payload): *)
(* jwt.encode signs a payload, jwt.decode parses the form, then checks the *)
(* signature, then the exp claim (PyJWT 2.x: expired when exp <= now).     *)
(*                                                                         *)
(* User service: the in-memory users_db of routes/user_routes.py and the   *)
(* handlers of routes/user_routes.py and routes/admin_routes.py.  The two  *)
(* services are processes of their own and share no state.                 *)
(***************************************************************************)
EXTENDS Integers, FiniteSets, Sequences, TLC

\* ------------------------------------------------------------- bounds
MaxTime == 2
MaxTokens == 2
MaxRevoked == 1
\* the trades created after the start of the trade service
MaxTrades == 1

\* --------------------------------------------- configuration (scaled)
JWT_ACCESS_TOKEN_EXPIRES == 1
JWT_REFRESH_TOKEN_EXPIRES == 2

\* -------------------------------------------------------- input values
\* the two worker threads that handle register requests concurrently
Threads == {1, 2}
Emails == {"a@x.com", "b@x.com"}
Passwords == {"p", "q"}
\* None, a missing key or an empty string: falsy in Python
NoValue == ""
\* a claim the payload does not carry: payload.get(...) is None
Absent == "absent"

VARIABLES users_db, token_blacklist, now, issued, nextId, nextJti,
          pc, regReq, resp, reg201, revoked,
          user_routes_users_db, next_user, user_resp,
          trades_db, next_trade, trade_resp

\* the state of the auth service
authVars == <<users_db, token_blacklist, now, issued, nextId, nextJti,
              pc, regReq, resp, reg201, revoked>>
\* the state of the user service
userVars == <<user_routes_users_db, next_user, user_resp>>
\* the state of the trade service
tradeVars == <<trades_db, next_trade, trade_resp>>

vars == <<users_db, token_blacklist, now, issued, nextId, nextJti,
          pc, regReq, resp, reg201, revoked,
          user_routes_users_db, next_user, user_resp,
          trades_db, next_trade, trade_resp>>

\* ------------------------------------------------------- token strings
Payload(sub, email, username, type, iat, exp, jti) ==
    [sub |-> sub, email |-> email, username |-> username, type |-> type,
     iat |-> iat, exp |-> exp, jti |-> jti, iss |-> "kong-demo-auth"]

NoPayload == Payload(0 - 1, Absent, Absent, Absent, 0, 0, 0)

\* jwt.encode(payload, JWT_SECRET_KEY, algorithm=JWT_ALGORITHM)
JwtEncode(payload) == [form |-> "jwt", sig |-> "good", payload |-> payload]

\* a body field that is missing or empty
NoToken == [form |-> "none", sig |-> "none", payload |-> NoPayload]
\* a string that is no three-segment JWT
MalformedToken == [form |-> "malformed", sig |-> "none", payload |-> NoPayload]
\* a JWT signed with another key; its payload claims an exp that has passed
ForgedToken ==
    [form |-> "jwt", sig |-> "bad",
     payload |-> Payload(0, "a@x.com", "alice", "access", 0, 0, 0)]
\* a JSON array sent as the token: a value that is truthy and not hashable
ListToken == [form |-> "list", sig |-> "none", payload |-> NoPayload]
\* "token in token_blacklist" and token_blacklist.add(token) hash the value:
\* TypeError for a list, caught by "except Exception"
Hashable(token) == token.form # "list"
\* a user of an earlier lifetime of the process: users_db and
\* token_blacklist are lost on restart, JWT_SECRET_KEY is not (the ids of
\* this lifetime are fresh uuids, counted from 1)
LegacyUser == [id |-> 0, username |-> "bob", email |-> "b@x.com",
               password |-> "p"]
\* the tokens of a login of that user: the access token has expired, the
\* refresh token expires when the clock reaches MaxTime
LegacyAccess ==
    JwtEncode(Payload(LegacyUser.id, LegacyUser.email, LegacyUser.username,
                      "access", 0, 1, 0 - 1))
LegacyRefresh ==
    JwtEncode(Payload(LegacyUser.id, Absent, Absent, "refresh", 0, MaxTime, 0))
LegacyTokens == {LegacyAccess, LegacyRefresh}

\* the token strings a client can send
Presentable == issued \cup LegacyTokens \cup {ForgedToken, MalformedToken}

\* exp compared with the clock for equality
JwtDecodeExpEqual(token, clock) ==
    IF token.form # "jwt" THEN "DecodeError"
    ELSE IF token.sig # "good" THEN "InvalidSignatureError"
    ELSE IF token.payload.exp = clock THEN "ExpiredSignatureError"
    ELSE "ok"

\* exp not checked (verify_exp off)
JwtDecodeNoExp(token, clock) ==
    IF token.form # "jwt" THEN "DecodeError"
    ELSE IF token.sig # "good" THEN "InvalidSignatureError"
    ELSE "ok"

\* jwt.decode(token, JWT_SECRET_KEY, algorithms=[JWT_ALGORITHM]): the
\* exception it raises, or "ok" (the payload is then token.payload)
JwtDecode(token, clock) ==
    IF token.form # "jwt" THEN "DecodeError"
    ELSE IF token.sig # "good" THEN "InvalidSignatureError"
    ELSE IF token.payload.exp <= clock THEN "ExpiredSignatureError"
    ELSE "ok"

\* ------------------------------------------------------------ responses
Response(status, code) ==
    [status |-> status, code |-> code, user_id |-> 0 - 1, email |-> Absent,
     username |-> Absent, access_token |-> NoToken, refresh_token |-> NoToken]

\* ---------------------------------------------------------- JSON bodies
\* request.get_json() of register and login; present is FALSE for an empty
\* body, a missing or empty field is NoValue
NoBody == [present |-> FALSE, username |-> NoValue, email |-> NoValue,
           password |-> NoValue]
Body(username, email, password) ==
    [present |-> TRUE, username |-> username, email |-> email,
     password |-> password]
\* the registrations sent: "alice" registers a@x.com, possibly twice at once
RegisterBodies ==
    {NoBody, Body("alice", "a@x.com", "p")}
    \cup {Body(NoValue, "a@x.com", "p"), Body("alice", NoValue, "p"),
          Body("alice", "a@x.com", NoValue)}
LoginBodies ==
    {NoBody}
    \cup {Body(NoValue, e, p) : e \in Emails, p \in Passwords}
    \cup {Body(NoValue, NoValue, "p"), Body(NoValue, "a@x.com", NoValue)}
\* request.get_json() of refresh, introspect and revoke
NoTokenBody == [present |-> FALSE, token |-> NoToken]
TokenBody(t) == [present |-> TRUE, token |-> t]
TokenBodies ==
    {NoTokenBody}
    \cup {TokenBody(t) : t \in Presentable \cup {NoToken, ListToken}}

\* ------------------------------------------------- Authorization header
\* auth_header.split(): whether the header is there, the number of parts,
\* parts[0] and parts[1]
NoHeader == [present |-> FALSE, nparts |-> 0, scheme |-> NoValue, tok |-> NoToken]
Bearer(t) == [present |-> TRUE, nparts |-> 2, scheme |-> "Bearer", tok |-> t]
Headers ==
    {NoHeader}
    \cup {Bearer(t) : t \in Presentable}
    \cup {[present |-> TRUE, nparts |-> 2, scheme |-> s, tok |-> t] :
            s \in {"bearer", "Basic"}, t \in {LegacyRefresh}}
    \cup {[present |-> TRUE, nparts |-> n, scheme |-> "Bearer", tok |-> NoToken] :
            n \in {1, 3}}
\* parts[0].lower()
Lower(s) == IF s \in {"Bearer", "bearer"} THEN "bearer" ELSE "basic"

\* ----------------------------------------------------------- user store
\* created_at is written once and read by no handler: it is left out
UserRecord(id, username, email, password, is_active) ==
    [id |-> id, username |-> username, email |-> email, password |-> password,
     is_active |-> is_active]

\* users_db[email] = record
Put(db, email, rec) ==
    [e \in DOMAIN db \cup {email} |-> IF e = email THEN rec ELSE db[e]]

EmptyDb == [e \in {} |-> UserRecord(0, NoValue, NoValue, NoValue, TRUE)]

\* ------------------------------------------------------------- register
\* a register that writes over the record of a known email
RegisterCheckResponseUpsert(db, data) ==
    IF ~data.present THEN Response(400, "INVALID_REQUEST")
    ELSE IF data.username = NoValue \/ data.email = NoValue
            \/ data.password = NoValue
        THEN Response(400, "MISSING_FIELDS")
    ELSE Response(0, "pass")

\* lines 33-62: validation and the "email in users_db" check; "pass" when
\* the handler goes on to create the user
RegisterCheckResponse(db, data) ==
    IF ~data.present THEN Response(400, "INVALID_REQUEST")
    ELSE IF data.username = NoValue \/ data.email = NoValue
            \/ data.password = NoValue
        THEN Response(400, "MISSING_FIELDS")
    ELSE IF data.email \in DOMAIN db THEN Response(409, "USER_EXISTS")
    ELSE Response(0, "pass")

\* lines 64-85: the insert and the 201 response
RegisterInsertResponse(user_id, username, email) ==
    [Response(201, "CREATED") EXCEPT
        !.user_id = user_id, !.username = username, !.email = email]

\* ---------------------------------------------------------------- login
\* a login that gives its two tokens one jti
LoginMintedOneJti(user, clock, jti1, jti2) ==
    LET access_payload ==
            Payload(user.id, user.email, user.username, "access", clock,
                    clock + JWT_ACCESS_TOKEN_EXPIRES, jti1)
        refresh_payload ==
            Payload(user.id, Absent, Absent, "refresh", clock,
                    clock + JWT_REFRESH_TOKEN_EXPIRES, jti1)
    IN [Response(200, "OK") EXCEPT
           !.access_token = JwtEncode(access_payload),
           !.refresh_token = JwtEncode(refresh_payload),
           !.user_id = user.id, !.username = user.username,
           !.email = user.email]

\* a login whose refresh payload carries email and username as well
LoginMintedSamePayload(user, clock, jti1, jti2) ==
    LET access_payload ==
            Payload(user.id, user.email, user.username, "access", clock,
                    clock + JWT_ACCESS_TOKEN_EXPIRES, jti1)
        refresh_payload ==
            Payload(user.id, user.email, user.username, "refresh", clock,
                    clock + JWT_REFRESH_TOKEN_EXPIRES, jti2)
    IN [Response(200, "OK") EXCEPT
           !.access_token = JwtEncode(access_payload),
           !.refresh_token = JwtEncode(refresh_payload),
           !.user_id = user.id, !.username = user.username,
           !.email = user.email]

\* lines 143-197: the two payloads, the two tokens and the 200 response
LoginMinted(user, clock, jti1, jti2) ==
    LET access_payload ==
            Payload(user.id, user.email, user.username, "access", clock,
                    clock + JWT_ACCESS_TOKEN_EXPIRES, jti1)
        refresh_payload ==
            Payload(user.id, Absent, Absent, "refresh", clock,
                    clock + JWT_REFRESH_TOKEN_EXPIRES, jti2)
    IN [Response(200, "OK") EXCEPT
           !.access_token = JwtEncode(access_payload),
           !.refresh_token = JwtEncode(refresh_payload),
           !.user_id = user.id, !.username = user.username,
           !.email = user.email]

\* a login that tells an unknown email from a wrong password
LoginResponseUnknownEmail(db, clock, jti1, jti2, data) ==
    IF ~data.present THEN Response(400, "INVALID_REQUEST")
    ELSE IF data.email = NoValue \/ data.password = NoValue
        THEN Response(400, "MISSING_FIELDS")
    ELSE IF data.email \notin DOMAIN db THEN Response(404, "USER_NOT_FOUND")
    ELSE IF db[data.email].password # data.password
        THEN Response(401, "INVALID_CREDENTIALS")
    ELSE IF ~db[data.email].is_active THEN Response(403, "ACCOUNT_INACTIVE")
    ELSE LoginMinted(db[data.email], clock, jti1, jti2)

\* a login that does not read is_active
LoginResponseNoActiveTest(db, clock, jti1, jti2, data) ==
    IF ~data.present THEN Response(400, "INVALID_REQUEST")
    ELSE IF data.email = NoValue \/ data.password = NoValue
        THEN Response(400, "MISSING_FIELDS")
    ELSE IF data.email \notin DOMAIN db
            \/ db[data.email].password # data.password
        THEN Response(401, "INVALID_CREDENTIALS")
    ELSE LoginMinted(db[data.email], clock, jti1, jti2)

LoginResponse(db, clock, jti1, jti2, data) ==
    IF ~data.present THEN Response(400, "INVALID_REQUEST")
    ELSE IF data.email = NoValue \/ data.password = NoValue
        THEN Response(400, "MISSING_FIELDS")
    ELSE IF data.email \notin DOMAIN db
            \/ db[data.email].password # data.password
        THEN Response(401, "INVALID_CREDENTIALS")
    ELSE IF ~db[data.email].is_active THEN Response(403, "ACCOUNT_INACTIVE")
    ELSE LoginMinted(db[data.email], clock, jti1, jti2)

\* --------------------------------------------------------------- verify
\* lines 245-276: jwt.decode, the 200 response and the two handlers of the
\* exceptions of jwt.decode
\* a verify that accepts access tokens only
VerifyDecodedAccessOnly(clock, token) ==
    LET d == JwtDecode(token, clock)
        payload == token.payload
    IN IF d = "ok" /\ payload.type # "access"
          THEN Response(401, "INVALID_TOKEN_TYPE")
       ELSE IF d = "ok"
          THEN [Response(200, "OK") EXCEPT
                   !.user_id = payload.sub, !.email = payload.email,
                   !.username = payload.username]
       ELSE IF d = "ExpiredSignatureError" THEN Response(401, "TOKEN_EXPIRED")
       ELSE Response(401, "INVALID_TOKEN")

VerifyDecoded(clock, token) ==
    LET d == JwtDecode(token, clock)
        payload == token.payload
    IN IF d = "ok"
          THEN [Response(200, "OK") EXCEPT
                   !.user_id = payload.sub, !.email = payload.email,
                   !.username = payload.username]
       ELSE IF d = "ExpiredSignatureError" THEN Response(401, "TOKEN_EXPIRED")
       ELSE Response(401, "INVALID_TOKEN")

\* the decode made before the blacklist is looked at
VerifyResponseDecodeFirst(bl, clock, hdr) ==
    IF ~hdr.present THEN Response(401, "MISSING_AUTH")
    ELSE IF hdr.nparts # 2 \/ Lower(hdr.scheme) # "bearer"
        THEN Response(401, "INVALID_AUTH_FORMAT")
    ELSE IF VerifyDecoded(clock, hdr.tok).status # 200
        THEN VerifyDecoded(clock, hdr.tok)
    ELSE IF hdr.tok \in bl THEN Response(401, "TOKEN_REVOKED")
    ELSE VerifyDecoded(clock, hdr.tok)

\* a verify that looks its subject up in users_db, as refresh does
VerifyResponseSubjectLookup(bl, clock, hdr) ==
    IF ~hdr.present THEN Response(401, "MISSING_AUTH")
    ELSE IF hdr.nparts # 2 \/ Lower(hdr.scheme) # "bearer"
        THEN Response(401, "INVALID_AUTH_FORMAT")
    ELSE IF hdr.tok \in bl THEN Response(401, "TOKEN_REVOKED")
    ELSE IF VerifyDecoded(clock, hdr.tok).status = 200
            /\ \A e \in DOMAIN users_db :
                  users_db[e].id # hdr.tok.payload.sub \/ ~users_db[e].is_active
        THEN Response(404, "USER_NOT_FOUND")
    ELSE VerifyDecoded(clock, hdr.tok)

VerifyResponse(bl, clock, hdr) ==
    IF ~hdr.present THEN Response(401, "MISSING_AUTH")
    ELSE IF hdr.nparts # 2 \/ Lower(hdr.scheme) # "bearer"
        THEN Response(401, "INVALID_AUTH_FORMAT")
    ELSE IF hdr.tok \in bl THEN Response(401, "TOKEN_REVOKED")
    ELSE VerifyDecoded(clock, hdr.tok)

\* --------------------------------------------------------------- logout
LogoutResponse(hdr) ==
    IF ~hdr.present THEN Response(401, "MISSING_AUTH")
    ELSE IF hdr.nparts # 2 \/ Lower(hdr.scheme) # "bearer"
        THEN Response(401, "INVALID_AUTH_FORMAT")
    ELSE Response(200, "OK")

\* the add left out
BlacklistAddNothing(bl, token) == bl

\* an add that takes a token out when it is already there
BlacklistToggle(bl, token) ==
    IF token \in bl THEN bl \ {token} ELSE bl \cup {token}

\* an add that takes every token of the same subject with it
BlacklistAddSubject(bl, token) ==
    bl \cup {token}
       \cup {u \in Presentable : u.payload.sub = token.payload.sub}

\* token_blacklist.add(token) in logout and in revoke_token
BlacklistAdd(bl, token) == bl \cup {token}

\* -------------------------------------------------------------- refresh
\* the loop taking the first record, whatever its id
FindByIdAny(db, user_id) == DOMAIN db

\* the loop over users_db.items(): the records whose id is user_id
FindById(db, user_id) == {e \in DOMAIN db : db[e].id = user_id}

\* the type test left out
WrongTokenTypeNever(payload) == FALSE

\* line 60: payload.get('type') != 'refresh'
WrongTokenType(payload) == payload.type # "refresh"

\* lines 52-127: jwt.decode, the type check, the user lookup, the new access
\* token and the two handlers of the exceptions of jwt.decode
RefreshDecoded(db, clock, jti, token) ==
    LET d == JwtDecode(token, clock)
        payload == token.payload
    IN IF d = "ExpiredSignatureError" THEN Response(401, "TOKEN_EXPIRED")
       ELSE IF d # "ok" THEN Response(401, "INVALID_TOKEN")
       ELSE IF WrongTokenType(payload) THEN Response(401, "INVALID_TOKEN_TYPE")
       ELSE IF FindById(db, payload.sub) = {}
           THEN Response(404, "USER_NOT_FOUND")
       ELSE LET user == db[CHOOSE e \in FindById(db, payload.sub) : TRUE]
                access_payload ==
                    Payload(user.id, user.email, user.username, "access",
                            clock, clock + JWT_ACCESS_TOKEN_EXPIRES, jti)
            IN [Response(200, "OK") EXCEPT
                   !.access_token = JwtEncode(access_payload)]

\* the handler without its blacklist test
RefreshResponseNoBlacklist(db, bl, clock, jti, data) ==
    IF ~data.present THEN Response(400, "INVALID_REQUEST")
    ELSE IF data.token = NoToken THEN Response(400, "MISSING_TOKEN")
    ELSE IF ~Hashable(data.token) THEN Response(500, "INTERNAL_ERROR")
    ELSE RefreshDecoded(db, clock, jti, data.token)

RefreshResponse(db, bl, clock, jti, data) ==
    IF ~data.present THEN Response(400, "INVALID_REQUEST")
    ELSE IF data.token = NoToken THEN Response(400, "MISSING_TOKEN")
    ELSE IF ~Hashable(data.token) THEN Response(500, "INTERNAL_ERROR")
    ELSE IF data.token \in bl THEN Response(401, "TOKEN_REVOKED")
    ELSE RefreshDecoded(db, clock, jti, data.token)

\* ----------------------------------------------------------- introspect
\* the bodies of introspect carry 'active' and no 'code': the code is
\* "ACTIVE" for active true and names the reply otherwise
IntrospectResponse(bl, clock, data) ==
    IF ~data.present THEN Response(400, "INVALID_REQUEST")
    ELSE IF data.token = NoToken THEN Response(400, "MISSING_TOKEN")
    ELSE IF ~Hashable(data.token) THEN Response(500, "INTERNAL_ERROR")
    ELSE IF data.token \in bl THEN Response(200, "INACTIVE")
    ELSE LET d == JwtDecode(data.token, clock)
             payload == data.token.payload
         IN IF d = "ok"
                THEN [Response(200, "ACTIVE") EXCEPT
                         !.user_id = payload.sub, !.email = payload.email,
                         !.username = payload.username]
            ELSE Response(200, "INACTIVE")

\* --------------------------------------------------------------- revoke
\* a revoke that accepts correctly signed JWTs only
RevokeResponseSignedOnly(data) ==
    IF ~data.present THEN Response(400, "INVALID_REQUEST")
    ELSE IF data.token = NoToken THEN Response(400, "MISSING_TOKEN")
    ELSE IF ~Hashable(data.token) THEN Response(500, "INTERNAL_ERROR")
    ELSE IF data.token.sig # "good" THEN Response(401, "INVALID_TOKEN")
    ELSE Response(200, "OK")

RevokeResponse(data) ==
    IF ~data.present THEN Response(400, "INVALID_REQUEST")
    ELSE IF data.token = NoToken THEN Response(400, "MISSING_TOKEN")
    ELSE IF ~Hashable(data.token) THEN Response(500, "INTERNAL_ERROR")
    ELSE Response(200, "OK")

\* ========================================================= user service
\* A record of users_db of user_routes.py.  first_name, last_name and phone
\* are written by update_profile as username is and read by no test;
\* created_at and updated_at are read by no handler: they are left out.
UserProfile(id, username, email, role, is_active) ==
    [id |-> id, username |-> username, email |-> email, role |-> role,
     is_active |-> is_active]

\* users_db as the module is loaded
SeedUsers ==
    [k \in {"user-001", "user-002"} |->
        IF k = "user-001"
        THEN UserProfile(k, "john_doe", "john@example.com", "user", TRUE)
        ELSE UserProfile(k, "jane_smith", "jane@example.com", "admin", TRUE)]

NoProfile == UserProfile(NoValue, NoValue, NoValue, NoValue, FALSE)

\* a JSON object as a dict; None and {} are both falsy
EmptyDict == [k \in {} |-> NoValue]
\* data.get(key, default)
Get(data, key, default) == IF key \in DOMAIN data THEN data[key] ELSE default

\* a response of the user service: status, code, the record under 'data'
\* and the counts of list_users and admin_stats
UserResponse(status, code) ==
    [status |-> status, code |-> code, data |-> NoProfile, total |-> 0,
     returned |-> 0]

\* get_user_from_header(): X-Consumer-Custom-ID or X-Consumer-Username, and
\* the first user when there is neither
ConsumerIds == {NoValue, "user-002", "user-ghost"}
HeaderUser(consumer) == IF consumer = NoValue THEN "user-001" ELSE consumer

\* the ids in the path /<user_id>
PathIds == {"user-001", "user-002", "user-3", "user-ghost"}

\* ---------------------------------------------------------- get_profile
GetProfileResponse(db, consumer) ==
    LET user_id == HeaderUser(consumer)
    IN IF user_id \notin DOMAIN db THEN UserResponse(404, "USER_NOT_FOUND")
       ELSE [UserResponse(200, "OK") EXCEPT !.data = db[user_id]]

\* ------------------------------------------------------- update_profile
\* the bodies sent: none, a new username, and an email, which is not among
\* the allowed fields
ProfileBodies ==
    {EmptyDict, [k \in {"username"} |-> "neo"],
     [k \in {"email"} |-> "jane@example.com"]}

\* lines 120-127: the allowed fields of the body written into the record
UpdatedProfile(user, data) ==
    [user EXCEPT !.username = Get(data, "username", user.username)]

UpdateProfileResponse(db, consumer, data) ==
    LET user_id == HeaderUser(consumer)
    IN IF user_id \notin DOMAIN db THEN UserResponse(404, "USER_NOT_FOUND")
       ELSE IF data = EmptyDict THEN UserResponse(400, "INVALID_REQUEST")
       ELSE [UserResponse(200, "OK") EXCEPT
                !.data = UpdatedProfile(db[user_id], data)]

\* ----------------------------------------------------------- list_users
\* search.lower() in text.lower(), for the search terms sent
SearchTerms == {NoValue, "jane", "zzz"}
Contains(text, term) ==
    term = "jane" /\ text \in {"jane_smith", "jane@example.com"}

Pages == {0, 1, 2}
Limits == {0, 1, 10, 101}

Min(a, b) == IF a < b THEN a ELSE b

ListUsersResponse(db, page0, limit0, search) ==
    LET page == IF page0 < 1 THEN 1 ELSE page0
        limit == IF limit0 < 1 \/ limit0 > 100 THEN 10 ELSE limit0
        filtered_users ==
            {k \in DOMAIN db :
                \/ search = NoValue
                \/ Contains(db[k].username, search)
                \/ Contains(db[k].email, search)}
        total == Cardinality(filtered_users)
        start_idx == (page - 1) * limit
        end_idx == start_idx + limit
    IN [UserResponse(200, "OK") EXCEPT
           !.total = total,
           !.returned = Min(total, end_idx) - Min(total, start_idx)]

\* ------------------------------------------------------------- get_user
GetUserResponse(db, user_id) ==
    IF user_id \notin DOMAIN db THEN UserResponse(404, "USER_NOT_FOUND")
    ELSE [UserResponse(200, "OK") EXCEPT !.data = db[user_id]]

\* ---------------------------------------------------------- delete_user
DeleteUserResponse(db, user_id) ==
    IF user_id \notin DOMAIN db THEN UserResponse(404, "USER_NOT_FOUND")
    ELSE UserResponse(200, "OK")

\* a delete that takes the key out of the dict
DeactivatedPopped(db, user_id) == [k \in DOMAIN db \ {user_id} |-> db[k]]

\* line 262: user['is_active'] = False
Deactivated(db, user_id) == [db EXCEPT ![user_id].is_active = FALSE]

\* ---------------------------------------------------- admin_create_user
\* the bodies sent: none, one without email, the email of a seed user, and
\* a new email without a role and with a role
CreateBodies ==
    {EmptyDict,
     [k \in {"username", "first_name", "last_name"} |-> "newbie"]}
    \cup {[k \in {"username", "email", "first_name", "last_name"} |->
             IF k = "email" THEN e ELSE "newbie"] :
          e \in {"john@example.com", "new@example.com"}}
    \cup {[k \in {"username", "email", "first_name", "last_name", "role"} |->
             IF k = "email" THEN "new@example.com"
             ELSE IF k = "role" THEN r ELSE "newbie"] :
          r \in {"admin", "root"}}

required_fields == {"username", "email", "first_name", "last_name"}

\* f"user-{uuid.uuid4().hex[:8]}": a fresh id
NewUserId(n) == "user-" \o ToString(n)

\* the duplicate test made over the active records only
AdminCreateUserResponseActiveOnly(db, user_id, data) ==
    IF data = EmptyDict THEN UserResponse(400, "INVALID_REQUEST")
    ELSE IF required_fields \ DOMAIN data # {}
        THEN UserResponse(400, "MISSING_FIELDS")
    ELSE IF \E k \in DOMAIN db :
               db[k].is_active /\ db[k].email = data["email"]
        THEN UserResponse(409, "DUPLICATE_EMAIL")
    ELSE [UserResponse(201, "CREATED") EXCEPT
             !.data = UserProfile(user_id, data["username"], data["email"],
                                  Get(data, "role", "user"), TRUE)]

AdminCreateUserResponse(db, user_id, data) ==
    IF data = EmptyDict THEN UserResponse(400, "INVALID_REQUEST")
    ELSE IF required_fields \ DOMAIN data # {}
        THEN UserResponse(400, "MISSING_FIELDS")
    ELSE IF \E k \in DOMAIN db : db[k].email = data["email"]
        THEN UserResponse(409, "DUPLICATE_EMAIL")
    ELSE [UserResponse(201, "CREATED") EXCEPT
             !.data = UserProfile(user_id, data["username"], data["email"],
                                  Get(data, "role", "user"), TRUE)]

\* ---------------------------------------------------- admin_update_role
valid_roles == {"user", "admin", "moderator", "viewer"}

RoleBodies ==
    {EmptyDict, [k \in {"note"} |-> "x"]}
    \cup {[k \in {"role"} |-> r] : r \in {"moderator", "root"}}

AdminUpdateRoleResponse(db, user_id, data) ==
    IF user_id \notin DOMAIN db THEN UserResponse(404, "USER_NOT_FOUND")
    ELSE IF data = EmptyDict \/ "role" \notin DOMAIN data
        THEN UserResponse(400, "MISSING_ROLE")
    ELSE IF data["role"] \notin valid_roles
        THEN UserResponse(400, "INVALID_ROLE")
    ELSE [UserResponse(200, "OK") EXCEPT
             !.data = [NoProfile EXCEPT !.id = user_id, !.role = data["role"]]]

\* -------------------------------------------------- admin_activate_user
AdminActivateUserResponse(db, user_id) ==
    IF user_id \notin DOMAIN db THEN UserResponse(404, "USER_NOT_FOUND")
    ELSE [UserResponse(200, "OK") EXCEPT
             !.data = [NoProfile EXCEPT !.id = user_id, !.is_active = TRUE]]

\* ---------------------------------------------------------- admin_stats
\* total counts the users, returned the active ones
AdminStatsResponse(db) ==
    [UserResponse(200, "OK") EXCEPT
        !.total = Cardinality(DOMAIN db),
        !.returned = Cardinality({k \in DOMAIN db : db[k].is_active})]

\* -------------------------------------------------------- health routes
\* fails: an exception is raised inside the handler (in version: OSError
\* from os.popen, when no process or pipe can be made)

\* the exception leaves the handler: the handler returns no response
Uncaught == UserResponse(0, "UNCAUGHT")

\* lines 27-50: "except Exception" answers 503 with status 'unhealthy'
HealthCheckResponse(fails) ==
    IF fails THEN UserResponse(503, "UNHEALTHY") ELSE UserResponse(200, "OK")

\* lines 58-65: no try block
VersionResponse(fails) ==
    IF fails THEN Uncaught ELSE UserResponse(200, "OK")

\* lines 73-88: "except Exception" answers 503 with ready false
ReadinessCheckResponse(fails) ==
    IF fails THEN UserResponse(503, "NOT_READY") ELSE UserResponse(200, "OK")

\* ======================================================== trade service
\* A JSON value of a request body: a whole number ("int"), a number with a
\* fraction ("float"), a string, null or an array.  n is the number; an
\* amount of money is counted in cents.
J(t, n, s) == [t |-> t, n |-> n, s |-> s]
JInt(n) == J("int", n, NoValue)
JFloat(n) == J("float", n, NoValue)
JStr(s) == J("str", 0, s)
JNull == J("null", 0, NoValue)
JList == J("list", 0, NoValue)

\* no timestamp: the key is missing from the record
NoStamp == 0

\* a record of trades_db; created_at and executed_at are never rewritten
\* and are left out
Trade(id, user_id, symbol, type, quantity, price, total_value, status) ==
    [id |-> id, user_id |-> user_id, symbol |-> symbol, type |-> type,
     quantity |-> quantity, price |-> price, total_value |-> total_value,
     status |-> status, updated_at |-> NoStamp, closed_at |-> NoStamp]

\* trades_db as the module is loaded
SeedTrades ==
    [k \in {"trade-001", "trade-002", "trade-003"} |->
        IF k = "trade-001"
           THEN Trade(k, "user-001", "AAPL", "buy", 100, 17550, 1755000,
                      "executed")
        ELSE IF k = "trade-002"
           THEN Trade(k, "user-001", "GOOGL", "buy", 50, 14225, 711250,
                      "executed")
        ELSE Trade(k, "user-002", "MSFT", "sell", 25, 38000, 950000,
                   "pending")]

NoTrade == Trade(NoValue, NoValue, NoValue, NoValue, 0, 0, 0, NoValue)

\* a response of the trade service: the status, the 'code' of an error
\* body, the trade in 'data', and for a list the total and the page length
TradeResponse(status, code) ==
    [status |-> status, code |-> code, data |-> NoTrade, total |-> 0,
     returned |-> 0]

\* str.upper() on the symbols sent
Upper(s) ==
    IF s = "aapl" THEN "AAPL" ELSE IF s = "msft" THEN "MSFT" ELSE s

\* isinstance(v, int) and v > 0
PositiveInt(v) == v.t = "int" /\ v.n > 0
\* isinstance(v, (int, float)) and v > 0
PositiveNumber(v) == v.t \in {"int", "float"} /\ v.n > 0
\* "not v" of a JSON value: null, "", 0 and [] are falsy
Falsy(v) ==
    \/ v.t = "null"
    \/ v.t = "str" /\ v.s = NoValue
    \/ v.t \in {"int", "float"} /\ v.n = 0

\* ---------------------------------------------------------- create_trade
\* {symbol, type, quantity} and one more key when extra is not the empty
\* dict
TradeBody(symbol, type, quantity, extra) ==
    [k \in {"symbol", "type", "quantity"} \cup DOMAIN extra |->
        IF k = "symbol" THEN symbol
        ELSE IF k = "type" THEN type
        ELSE IF k = "quantity" THEN quantity
        ELSE extra[k]]

PriceOf(v) == [k \in {"price"} |-> v]

\* the bodies sent: none; one without quantity; a type that is neither buy
\* nor sell; quantities that are zero or no integer; market orders; prices
\* that are negative or null; a symbol that is null
CreateTradeBodies ==
    {EmptyDict,
     [k \in {"symbol", "type"} |-> JStr("aapl")],
     TradeBody(JStr("aapl"), JStr("hold"), JInt(10), EmptyDict),
     TradeBody(JStr("aapl"), JStr("buy"), JInt(0), EmptyDict),
     TradeBody(JStr("aapl"), JStr("buy"), JFloat(150), EmptyDict),
     TradeBody(JStr("aapl"), JStr("buy"), JInt(10), EmptyDict),
     TradeBody(JStr("msft"), JStr("sell"), JInt(10), PriceOf(JFloat(20050))),
     TradeBody(JStr("aapl"), JStr("buy"), JInt(10), PriceOf(JInt(0 - 500))),
     TradeBody(JStr("aapl"), JStr("buy"), JInt(10), PriceOf(JNull)),
     TradeBody(JNull, JStr("buy"), JInt(10), EmptyDict)}

trade_required_fields == {"symbol", "type", "quantity"}

\* f"trade-{uuid.uuid4().hex[:8]}": a fresh id
NewTradeId(n) == "trade-" \o ToString(n)

\* lines 74-148.  price * quantity raises TypeError for a null price and
\* data['symbol'].upper() raises AttributeError for a null symbol: both
\* are caught by "except Exception".  The default price is 100.00.
CreateTradeResponse(trade_id, user_id, data) ==
    IF data = EmptyDict THEN TradeResponse(400, "INVALID_REQUEST")
    ELSE IF trade_required_fields \ DOMAIN data # {}
        THEN TradeResponse(400, "MISSING_FIELDS")
    ELSE IF data["type"].t # "str" \/ data["type"].s \notin {"buy", "sell"}
        THEN TradeResponse(400, "INVALID_TRADE_TYPE")
    ELSE IF ~PositiveInt(data["quantity"])
        THEN TradeResponse(400, "INVALID_QUANTITY")
    ELSE LET price == Get(data, "price", JFloat(10000))
         IN IF price.t \notin {"int", "float"}
               THEN TradeResponse(500, "INTERNAL_ERROR")
            ELSE IF data["symbol"].t # "str"
               THEN TradeResponse(500, "INTERNAL_ERROR")
            ELSE [TradeResponse(201, "CREATED") EXCEPT
                     !.data = Trade(trade_id, user_id,
                                    Upper(data["symbol"].s), data["type"].s,
                                    data["quantity"].n, price.n,
                                    price.n * data["quantity"].n,
                                    "pending")]

\* ---------------------------------------------------------- modify_trade
\* {trade_id} and the keys of extra
ModifyBody(trade_id, extra) ==
    [k \in {"trade_id"} \cup DOMAIN extra |->
        IF k = "trade_id" THEN trade_id ELSE extra[k]]

QuantityOf(v) == [k \in {"quantity"} |-> v]
QuantityAndPrice(q, p) ==
    [k \in {"quantity", "price"} |-> IF k = "quantity" THEN q ELSE p]

\* the changes asked for: none, a quantity, a price or both, each valid
\* or not
ModifyChanges ==
    {EmptyDict, QuantityOf(JInt(30)), QuantityOf(JInt(0)),
     PriceOf(JFloat(40000)), PriceOf(JInt(0)),
     QuantityAndPrice(JInt(30), JFloat(40000)),
     QuantityAndPrice(JInt(30), JInt(0)),
     QuantityAndPrice(JInt(0), JFloat(40000))}

\* the bodies sent: none; one without trade_id; a trade_id that is an
\* array, unknown, that of an executed trade; every change of the pending
\* seed trade; two changes of the first created trade
ModifyBodies ==
    {EmptyDict, QuantityOf(JInt(30)),
     ModifyBody(JList, EmptyDict),
     ModifyBody(JStr("trade-ghost"), QuantityOf(JInt(30))),
     ModifyBody(JStr("trade-001"), QuantityOf(JInt(30)))}
    \cup {ModifyBody(JStr("trade-003"), extra) : extra \in ModifyChanges}
    \cup {ModifyBody(JStr("trade-4"), extra) :
             extra \in {QuantityOf(JInt(30)),
                        QuantityAndPrice(JInt(30), JInt(0))}}

\* what a request leaves behind: the response and trades_db
Result(out, db) == [out |-> out, db |-> db]

\* lines 161-234.  trade is the stored dict itself: line 205 writes the
\* quantity into it before the price is looked at, so a request answered
\* 400 INVALID_PRICE has already changed the quantity.  trades_db.get of
\* an array raises TypeError, caught by "except Exception".
ModifyTradeResult(db, clock, data) ==
    IF data = EmptyDict THEN Result(TradeResponse(400, "INVALID_REQUEST"), db)
    ELSE IF Falsy(Get(data, "trade_id", JNull))
        THEN Result(TradeResponse(400, "MISSING_TRADE_ID"), db)
    ELSE IF data["trade_id"].t = "list"
        THEN Result(TradeResponse(500, "INTERNAL_ERROR"), db)
    ELSE IF data["trade_id"].t # "str" \/ data["trade_id"].s \notin DOMAIN db
        THEN Result(TradeResponse(404, "TRADE_NOT_FOUND"), db)
    ELSE LET trade_id == data["trade_id"].s
             trade == db[trade_id]
         IN IF trade.status # "pending"
               THEN Result(TradeResponse(400, "TRADE_NOT_MODIFIABLE"), db)
            ELSE IF "quantity" \in DOMAIN data
                    /\ ~PositiveInt(data["quantity"])
               THEN Result(TradeResponse(400, "INVALID_QUANTITY"), db)
            ELSE LET trade1 == IF "quantity" \in DOMAIN data
                                  THEN [trade EXCEPT
                                           !.quantity = data["quantity"].n]
                                  ELSE trade
                 IN IF "price" \in DOMAIN data
                       /\ ~PositiveNumber(data["price"])
                       THEN Result(TradeResponse(400, "INVALID_PRICE"),
                                   [db EXCEPT ![trade_id] = trade1])
                    ELSE LET price == IF "price" \in DOMAIN data
                                         THEN data["price"].n
                                         ELSE trade1.price
                             modified ==
                                 [trade1 EXCEPT
                                     !.price = price,
                                     !.total_value = price * trade1.quantity,
                                     !.updated_at = clock]
                         IN Result([TradeResponse(200, "OK") EXCEPT
                                       !.data = modified],
                                   [db EXCEPT ![trade_id] = modified])

\* ----------------------------------------------------------- list_trades
TradePages == {0, 2}
TradeLimits == {1, 101}
StatusFilters == {NoValue, "pending"}
SymbolFilters == {NoValue, "msft"}

\* lines 243-295: the filters, the total and the length of the page
ListTradesResponse(db, page0, limit0, status, symbol) ==
    LET page == IF page0 < 1 THEN 1 ELSE page0
        limit == IF limit0 < 1 \/ limit0 > 100 THEN 10 ELSE limit0
        filtered_trades ==
            {k \in DOMAIN db :
                /\ status = NoValue \/ db[k].status = status
                /\ symbol = NoValue \/ Upper(db[k].symbol) = Upper(symbol)}
        total == Cardinality(filtered_trades)
        start_idx == (page - 1) * limit
        end_idx == start_idx + limit
    IN [TradeResponse(200, "OK") EXCEPT
           !.total = total,
           !.returned = Min(total, end_idx) - Min(total, start_idx)]

\* ------------------------------------------------------------- get_trade
TradePathIds == {"trade-001", "trade-003", "trade-4", "trade-ghost"}

GetTradeResponse(db, trade_id) ==
    IF trade_id \notin DOMAIN db THEN TradeResponse(404, "TRADE_NOT_FOUND")
    ELSE [TradeResponse(200, "OK") EXCEPT !.data = db[trade_id]]

\* ----------------------------------------------------------- close_trade
\* a close that takes a trade of any status
CloseTradeResultAnyStatus(db, clock, trade_id) ==
    IF trade_id \notin DOMAIN db
       THEN Result(TradeResponse(404, "TRADE_NOT_FOUND"), db)
    ELSE LET closed == [db[trade_id] EXCEPT !.status = "cancelled",
                                           !.closed_at = clock]
         IN Result([TradeResponse(200, "OK") EXCEPT !.data = closed],
                   [db EXCEPT ![trade_id] = closed])

\* lines 342-368
CloseTradeResult(db, clock, trade_id) ==
    IF trade_id \notin DOMAIN db
       THEN Result(TradeResponse(404, "TRADE_NOT_FOUND"), db)
    ELSE IF db[trade_id].status # "pending"
       THEN Result(TradeResponse(400, "TRADE_NOT_CLOSABLE"), db)
    ELSE LET closed == [db[trade_id] EXCEPT !.status = "cancelled",
                                           !.closed_at = clock]
         IN Result([TradeResponse(200, "OK") EXCEPT !.data = closed],
                   [db EXCEPT ![trade_id] = closed])

\* ================================================================ state
NoReq == [username |-> NoValue, email |-> NoValue, password |-> NoValue]

\* the last response sent: the handler, the status and the code of the
\* reply; again tells that the token of a logout or revoke request answered
\* 200 was in token_blacklist before the add
Sent(op, out) ==
    [op |-> op, status |-> out.status, code |-> out.code, again |-> FALSE]

\* the auth service as its process starts
AuthInit ==
    /\ users_db = EmptyDb
    /\ token_blacklist = {}
    /\ now = 1
    /\ issued = {}
    /\ nextId = 1
    /\ nextJti = 1
    /\ pc = [th \in Threads |-> "idle"]
    /\ regReq = [th \in Threads |-> NoReq]
    /\ resp = Sent("none", Response(0, "none"))
    /\ reg201 = {}
    /\ revoked = {}

\* the user service as its process starts; the created users get the ids
\* user-3, user-4, ...
UserInit ==
    /\ user_routes_users_db = SeedUsers
    /\ next_user = Cardinality(DOMAIN SeedUsers) + 1
    /\ user_resp = [op |-> "none", status |-> 0, code |-> "none"]

\* the trade service as its process starts; the created trades get the
\* ids trade-4, trade-5, ...
TradeInit ==
    /\ trades_db = SeedTrades
    /\ next_trade = Cardinality(DOMAIN SeedTrades) + 1
    /\ trade_resp = [op |-> "none", status |-> 0, code |-> "none"]

Init == AuthInit /\ UserInit /\ TradeInit

\* datetime.datetime.utcnow() read at a later instant
Tick ==
    /\ now < MaxTime
    /\ now' = now + 1
    /\ UNCHANGED <<users_db, token_blacklist, issued, nextId, nextJti, pc,
                   regReq, resp, reg201, revoked>>
    /\ UNCHANGED <<userVars, tradeVars>>

\* register, lines 33-62: a worker thread validates the body and tests
\* "email in users_db"; a request goes to the first idle worker
RegisterCheck(th, data) ==
    /\ pc[th] = "idle"
    /\ \A t \in Threads : t < th => pc[t] # "idle"
    /\ LET out == RegisterCheckResponse(users_db, data)
       IN IF out.code = "pass"
             THEN /\ pc' = [pc EXCEPT ![th] = "insert"]
                  /\ regReq' = [regReq EXCEPT ![th] =
                                   [username |-> data.username,
                                    email |-> data.email,
                                    password |-> data.password]]
                  /\ UNCHANGED resp
             ELSE /\ resp' = Sent("register", out)
                  /\ UNCHANGED <<pc, regReq>>
    /\ UNCHANGED <<users_db, token_blacklist, now, issued, nextId, nextJti,
                   reg201, revoked>>
    /\ UNCHANGED <<userVars, tradeVars>>

\* register, lines 64-85: the same thread stores the record and answers 201
RegisterInsert(th) ==
    /\ pc[th] = "insert"
    /\ LET q == regReq[th]
           user_id == nextId
       IN /\ users_db' = Put(users_db, q.email,
                             UserRecord(user_id, q.username, q.email,
                                        q.password, TRUE))
          /\ resp' = Sent("register",
                          RegisterInsertResponse(user_id, q.username, q.email))
          /\ reg201' = reg201 \cup
                 {[email |-> q.email, password |-> q.password,
                   user_id |-> user_id]}
    /\ nextId' = nextId + 1
    /\ pc' = [pc EXCEPT ![th] = "idle"]
    /\ regReq' = [regReq EXCEPT ![th] = NoReq]
    /\ UNCHANGED <<token_blacklist, now, issued, nextJti, revoked>>
    /\ UNCHANGED <<userVars, tradeVars>>

Login(data) ==
    LET out == LoginResponse(users_db, now, nextJti, nextJti + 1, data)
    IN /\ resp' = Sent("login", out)
       /\ IF out.status = 200
             THEN /\ nextJti + 1 <= MaxTokens
                  /\ issued' = issued \cup {out.access_token, out.refresh_token}
                  /\ nextJti' = nextJti + 2
             ELSE UNCHANGED <<issued, nextJti>>
       /\ UNCHANGED <<users_db, token_blacklist, now, nextId, pc, regReq,
                      reg201, revoked>>
       /\ UNCHANGED <<userVars, tradeVars>>

Verify(hdr) ==
    /\ resp' = Sent("verify", VerifyResponse(token_blacklist, now, hdr))
    /\ UNCHANGED <<users_db, token_blacklist, now, issued, nextId, nextJti,
                   pc, regReq, reg201, revoked>>
    /\ UNCHANGED <<userVars, tradeVars>>

Logout(hdr) ==
    LET out == LogoutResponse(hdr)
    IN /\ IF out.status = 200
             THEN /\ resp' = [Sent("logout", out) EXCEPT
                                 !.again = hdr.tok \in token_blacklist]
                  /\ \/ hdr.tok \in token_blacklist
                     \/ Cardinality(token_blacklist) < MaxRevoked
                  /\ token_blacklist' = BlacklistAdd(token_blacklist, hdr.tok)
                  /\ revoked' = revoked \cup {hdr.tok}
             ELSE /\ resp' = Sent("logout", out)
                  /\ UNCHANGED <<token_blacklist, revoked>>
       /\ UNCHANGED <<users_db, now, issued, nextId, nextJti, pc, regReq,
                      reg201>>
       /\ UNCHANGED <<userVars, tradeVars>>

\* a refresh that rotates: the refresh token it accepted is revoked
RefreshConsuming(data) ==
    LET out == RefreshResponse(users_db, token_blacklist, now, nextJti, data)
    IN /\ resp' = Sent("refresh", out)
       /\ IF out.status = 200
             THEN /\ nextJti <= MaxTokens
                  /\ issued' = issued \cup {out.access_token}
                  /\ nextJti' = nextJti + 1
                  /\ token_blacklist' = token_blacklist \cup {data.token}
             ELSE UNCHANGED <<issued, nextJti, token_blacklist>>
       /\ UNCHANGED <<users_db, now, nextId, pc, regReq, reg201, revoked>>
       /\ UNCHANGED <<userVars, tradeVars>>

Refresh(data) ==
    LET out == RefreshResponse(users_db, token_blacklist, now, nextJti, data)
    IN /\ resp' = Sent("refresh", out)
       /\ IF out.status = 200
             THEN /\ nextJti <= MaxTokens
                  /\ issued' = issued \cup {out.access_token}
                  /\ nextJti' = nextJti + 1
             ELSE UNCHANGED <<issued, nextJti>>
       /\ UNCHANGED <<users_db, token_blacklist, now, nextId, pc, regReq,
                      reg201, revoked>>
       /\ UNCHANGED <<userVars, tradeVars>>

Introspect(data) ==
    /\ resp' = Sent("introspect",
                    IntrospectResponse(token_blacklist, now, data))
    /\ UNCHANGED <<users_db, token_blacklist, now, issued, nextId, nextJti,
                   pc, regReq, reg201, revoked>>
    /\ UNCHANGED <<userVars, tradeVars>>

Revoke(data) ==
    LET out == RevokeResponse(data)
    IN /\ IF out.status = 200
             THEN /\ resp' = [Sent("revoke", out) EXCEPT
                                 !.again = data.token \in token_blacklist]
                  /\ \/ data.token \in token_blacklist
                     \/ Cardinality(token_blacklist) < MaxRevoked
                  /\ token_blacklist' = BlacklistAdd(token_blacklist, data.token)
                  /\ revoked' = revoked \cup {data.token}
             ELSE /\ resp' = Sent("revoke", out)
                  /\ UNCHANGED <<token_blacklist, revoked>>
       /\ UNCHANGED <<users_db, now, issued, nextId, nextJti, pc, regReq,
                      reg201>>
       /\ UNCHANGED <<userVars, tradeVars>>

\* ------------------------------------------- handlers of the user service
\* the last response the user service sent
UserSent(op, out) == [op |-> op, status |-> out.status, code |-> out.code]

GetProfile(consumer) ==
    /\ user_resp' = UserSent("get_profile",
                          GetProfileResponse(user_routes_users_db, consumer))
    /\ UNCHANGED <<user_routes_users_db, next_user>>
    /\ UNCHANGED <<authVars, tradeVars>>

UpdateProfile(consumer, data) ==
    LET out == UpdateProfileResponse(user_routes_users_db, consumer, data)
    IN /\ user_resp' = UserSent("update_profile", out)
       /\ IF out.status = 200
             THEN user_routes_users_db' =
                      [user_routes_users_db EXCEPT ![out.data.id] = out.data]
             ELSE UNCHANGED user_routes_users_db
       /\ UNCHANGED next_user
       /\ UNCHANGED <<authVars, tradeVars>>

ListUsers(page, limit, search) ==
    /\ user_resp' = UserSent("list_users",
                          ListUsersResponse(user_routes_users_db, page, limit,
                                            search))
    /\ UNCHANGED <<user_routes_users_db, next_user>>
    /\ UNCHANGED <<authVars, tradeVars>>

GetUser(user_id) ==
    /\ user_resp' = UserSent("get_user",
                          GetUserResponse(user_routes_users_db, user_id))
    /\ UNCHANGED <<user_routes_users_db, next_user>>
    /\ UNCHANGED <<authVars, tradeVars>>

\* a delete_user that also deactivates the records of the auth store
DeleteUserAuthStore(user_id) ==
    LET out == DeleteUserResponse(user_routes_users_db, user_id)
    IN /\ user_resp' = UserSent("delete_user", out)
       /\ IF out.status = 200
             THEN /\ user_routes_users_db' =
                        Deactivated(user_routes_users_db, user_id)
                  /\ users_db' = [e \in DOMAIN users_db |->
                                    [users_db[e] EXCEPT !.is_active = FALSE]]
             ELSE UNCHANGED <<user_routes_users_db, users_db>>
       /\ UNCHANGED next_user
       /\ UNCHANGED <<token_blacklist, now, issued, nextId, nextJti, pc,
                      regReq, resp, reg201, revoked>>
       /\ UNCHANGED tradeVars

DeleteUser(user_id) ==
    LET out == DeleteUserResponse(user_routes_users_db, user_id)
    IN /\ user_resp' = UserSent("delete_user", out)
       /\ IF out.status = 200
             THEN user_routes_users_db' =
                      Deactivated(user_routes_users_db, user_id)
             ELSE UNCHANGED user_routes_users_db
       /\ UNCHANGED next_user
       /\ UNCHANGED <<authVars, tradeVars>>

AdminCreateUser(data) ==
    LET user_id == NewUserId(next_user)
        out == AdminCreateUserResponse(user_routes_users_db, user_id, data)
    IN /\ user_resp' = UserSent("admin_create_user", out)
       /\ IF out.status = 201
             THEN /\ user_routes_users_db' =
                        [k \in DOMAIN user_routes_users_db \cup {user_id} |->
                            IF k = user_id THEN out.data
                            ELSE user_routes_users_db[k]]
                  /\ next_user' = next_user + 1
             ELSE UNCHANGED <<user_routes_users_db, next_user>>
       /\ UNCHANGED <<authVars, tradeVars>>

AdminUpdateRole(user_id, data) ==
    LET out == AdminUpdateRoleResponse(user_routes_users_db, user_id, data)
    IN /\ user_resp' = UserSent("admin_update_role", out)
       /\ IF out.status = 200
             THEN user_routes_users_db' =
                      [user_routes_users_db EXCEPT
                          ![user_id].role = data["role"]]
             ELSE UNCHANGED user_routes_users_db
       /\ UNCHANGED next_user
       /\ UNCHANGED <<authVars, tradeVars>>

AdminActivateUser(user_id) ==
    LET out == AdminActivateUserResponse(user_routes_users_db, user_id)
    IN /\ user_resp' = UserSent("admin_activate_user", out)
       /\ IF out.status = 200
             THEN user_routes_users_db' =
                      [user_routes_users_db EXCEPT ![user_id].is_active = TRUE]
             ELSE UNCHANGED user_routes_users_db
       /\ UNCHANGED next_user
       /\ UNCHANGED <<authVars, tradeVars>>

AdminStats ==
    /\ user_resp' = UserSent("admin_stats", AdminStatsResponse(user_routes_users_db))
    /\ UNCHANGED <<user_routes_users_db, next_user>>
    /\ UNCHANGED <<authVars, tradeVars>>

HealthCheck(fails) ==
    /\ user_resp' = UserSent("health_check", HealthCheckResponse(fails))
    /\ UNCHANGED <<user_routes_users_db, next_user>>
    /\ UNCHANGED <<authVars, tradeVars>>

Version(fails) ==
    /\ user_resp' = UserSent("version", VersionResponse(fails))
    /\ UNCHANGED <<user_routes_users_db, next_user>>
    /\ UNCHANGED <<authVars, tradeVars>>

ReadinessCheck(fails) ==
    /\ user_resp' = UserSent("readiness_check", ReadinessCheckResponse(fails))
    /\ UNCHANGED <<user_routes_users_db, next_user>>
    /\ UNCHANGED <<authVars, tradeVars>>

\* ------------------------------------------ handlers of the trade service
\* the last response the trade service sent
TradeSent(op, out) == [op |-> op, status |-> out.status, code |-> out.code]

\* the X-Consumer-Custom-ID header of create_trade, as Kong forwards it
TradeConsumers == {"user-002"}

CreateTrade(consumer, data) ==
    LET trade_id == NewTradeId(next_trade)
        out == CreateTradeResponse(trade_id, HeaderUser(consumer), data)
    IN /\ trade_resp' = TradeSent("create_trade", out)
       /\ IF out.status = 201
             THEN /\ next_trade <= Cardinality(DOMAIN SeedTrades) + MaxTrades
                  /\ trades_db' =
                        [k \in DOMAIN trades_db \cup {trade_id} |->
                            IF k = trade_id THEN out.data ELSE trades_db[k]]
                  /\ next_trade' = next_trade + 1
             ELSE UNCHANGED <<trades_db, next_trade>>
       /\ UNCHANGED <<authVars, userVars>>

ModifyTrade(data) ==
    LET result == ModifyTradeResult(trades_db, now, data)
    IN /\ trade_resp' = TradeSent("modify_trade", result.out)
       /\ trades_db' = result.db
       /\ UNCHANGED next_trade
       /\ UNCHANGED <<authVars, userVars>>

ListTrades(page, limit, status, symbol) ==
    /\ trade_resp' = TradeSent("list_trades",
                               ListTradesResponse(trades_db, page, limit,
                                                  status, symbol))
    /\ UNCHANGED <<trades_db, next_trade>>
    /\ UNCHANGED <<authVars, userVars>>

GetTrade(trade_id) ==
    /\ trade_resp' = TradeSent("get_trade",
                               GetTradeResponse(trades_db, trade_id))
    /\ UNCHANGED <<trades_db, next_trade>>
    /\ UNCHANGED <<authVars, userVars>>

CloseTrade(trade_id) ==
    LET result == CloseTradeResult(trades_db, now, trade_id)
    IN /\ trade_resp' = TradeSent("close_trade", result.out)
       /\ trades_db' = result.db
       /\ UNCHANGED next_trade
       /\ UNCHANGED <<authVars, userVars>>

Next ==
    \/ Tick
    \/ \E th \in Threads, data \in RegisterBodies : RegisterCheck(th, data)
    \/ \E th \in Threads : RegisterInsert(th)
    \/ \E data \in LoginBodies : Login(data)
    \/ \E hdr \in Headers : Verify(hdr)
    \/ \E hdr \in Headers : Logout(hdr)
    \/ \E data \in TokenBodies : Refresh(data)
    \/ \E data \in TokenBodies : Introspect(data)
    \/ \E data \in TokenBodies : Revoke(data)

Spec == Init /\ [][Next]_vars

NextUsers ==
    \/ \E consumer \in ConsumerIds : GetProfile(consumer)
    \/ \E consumer \in ConsumerIds, data \in ProfileBodies :
          UpdateProfile(consumer, data)
    \/ \E page \in Pages, limit \in Limits, search \in SearchTerms :
          ListUsers(page, limit, search)
    \/ \E user_id \in PathIds : GetUser(user_id)
    \/ \E user_id \in PathIds : DeleteUser(user_id)
    \/ \E data \in CreateBodies : AdminCreateUser(data)
    \/ \E user_id \in PathIds, data \in RoleBodies :
          AdminUpdateRole(user_id, data)
    \/ \E user_id \in PathIds : AdminActivateUser(user_id)
    \/ AdminStats
    \/ \E fails \in BOOLEAN : HealthCheck(fails)
    \/ \E fails \in BOOLEAN : Version(fails)
    \/ \E fails \in BOOLEAN : ReadinessCheck(fails)

SpecUsers == Init /\ [][NextUsers]_vars

\* the trade service alone.  updated_at and closed_at are written and
\* never read by a handler: the clock stands still.
NextTrades ==
    \/ \E consumer \in TradeConsumers, data \in CreateTradeBodies :
          CreateTrade(consumer, data)
    \/ \E data \in ModifyBodies : ModifyTrade(data)
    \/ \E page \in TradePages, limit \in TradeLimits,
          status \in StatusFilters, symbol \in SymbolFilters :
          ListTrades(page, limit, status, symbol)
    \/ \E trade_id \in TradePathIds : GetTrade(trade_id)
    \/ \E trade_id \in TradePathIds : CloseTrade(trade_id)

SpecTrades == Init /\ [][NextTrades]_vars

\* The auth service and the user service side by side.  They are two
\* processes without shared state, so a run of both is a run of each: the
\* runs in which one service is at work while the other stands as it
\* started are looked at.
NextServices ==
    \/ UserInit /\ Tick
    \/ \E th \in Threads, data \in RegisterBodies :
          UserInit /\ RegisterCheck(th, data)
    \/ \E th \in Threads : UserInit /\ RegisterInsert(th)
    \/ \E data \in LoginBodies : UserInit /\ Login(data)
    \/ \E hdr \in Headers : UserInit /\ Verify(hdr)
    \/ \E hdr \in Headers : UserInit /\ Logout(hdr)
    \/ \E data \in TokenBodies : UserInit /\ Refresh(data)
    \/ \E data \in TokenBodies : UserInit /\ Introspect(data)
    \/ \E data \in TokenBodies : UserInit /\ Revoke(data)
    \/ \E consumer \in ConsumerIds : AuthInit /\ GetProfile(consumer)
    \/ \E consumer \in ConsumerIds, data \in ProfileBodies :
          AuthInit /\ UpdateProfile(consumer, data)
    \/ \E page \in Pages, limit \in Limits, search \in SearchTerms :
          AuthInit /\ ListUsers(page, limit, search)
    \/ \E user_id \in PathIds : AuthInit /\ GetUser(user_id)
    \/ \E user_id \in PathIds : AuthInit /\ DeleteUser(user_id)
    \/ \E data \in CreateBodies : AuthInit /\ AdminCreateUser(data)
    \/ \E user_id \in PathIds, data \in RoleBodies :
          AuthInit /\ AdminUpdateRole(user_id, data)
    \/ \E user_id \in PathIds : AuthInit /\ AdminActivateUser(user_id)
    \/ AuthInit /\ AdminStats
    \/ \E fails \in BOOLEAN : AuthInit /\ HealthCheck(fails)
    \/ \E fails \in BOOLEAN : AuthInit /\ Version(fails)
    \/ \E fails \in BOOLEAN : AuthInit /\ ReadinessCheck(fails)

SpecServices == Init /\ [][NextServices]_vars

\* The token handlers over a store that already holds a record: the user
\* of LegacyTokens, active or deactivated (login reads is_active, line 136;
\* no handler of the auth service writes it after register).  No
\* registration is made here.
InitStore ==
    /\ \E active \in BOOLEAN :
          users_db = Put(EmptyDb, LegacyUser.email,
                         UserRecord(LegacyUser.id, LegacyUser.username,
                                    LegacyUser.email, LegacyUser.password,
                                    active))
    /\ token_blacklist = {}
    /\ now = 1
    /\ issued = {}
    /\ nextId = 1
    /\ nextJti = 1
    /\ pc = [th \in Threads |-> "idle"]
    /\ regReq = [th \in Threads |-> NoReq]
    /\ resp = Sent("none", Response(0, "none"))
    /\ reg201 = {}
    /\ revoked = {}
    /\ UserInit
    /\ TradeInit

NextStore ==
    \/ Tick
    \/ \E data \in LoginBodies : Login(data)
    \/ \E hdr \in Headers : Verify(hdr)
    \/ \E hdr \in Headers : Logout(hdr)
    \/ \E data \in TokenBodies : Refresh(data)
    \/ \E data \in TokenBodies : Introspect(data)
    \/ \E data \in TokenBodies : Revoke(data)

SpecStore == InitStore /\ [][NextStore]_vars

\* The handlers of the auth service with delete_user of the user service
\* at work at the same time, the clock standing still: the two writers of
\* an is_active field, register (line 72) and delete_user (line 262).
NextDeactivation ==
    \/ \E th \in Threads, data \in RegisterBodies : RegisterCheck(th, data)
    \/ \E th \in Threads : RegisterInsert(th)
    \/ \E data \in LoginBodies : Login(data)
    \/ \E hdr \in Headers : Verify(hdr)
    \/ \E hdr \in Headers : Logout(hdr)
    \/ \E data \in TokenBodies : Refresh(data)
    \/ \E data \in TokenBodies : Introspect(data)
    \/ \E data \in TokenBodies : Revoke(data)
    \/ \E user_id \in PathIds : DeleteUser(user_id)

SpecDeactivation == Init /\ [][NextDeactivation]_vars

\* ============================================================== claims
\* the instants from now on
Later == now..MaxTime

\* verify of "Authorization: Bearer t" at the instant clock
VerifyOf(t, clock) == VerifyResponse(token_blacklist, clock, Bearer(t))

\* refresh of {"refresh_token": t} at the instant clock
RefreshOf(t, clock) ==
    RefreshResponse(users_db, token_blacklist, clock, nextJti, TokenBody(t))

\* C1: a token that POST /revoke or logout has answered 200 for is rejected
\* by every later verify with 401 TOKEN_REVOKED, also when it is correctly
\* signed and has not expired.
C1_RevokedIsRejected ==
    \A t \in revoked : \A clock \in Later :
        VerifyOf(t, clock) = Response(401, "TOKEN_REVOKED")

\* verify has answered TOKEN_REVOKED and every revoked token is correctly
\* signed and unexpired
C1_Witness ==
    /\ resp.op = "verify" /\ resp.code = "TOKEN_REVOKED"
    /\ revoked # {}
    /\ \A t \in revoked : JwtDecode(t, now) = "ok"

\* C2: once a refresh token is in the revocation registry, refresh of it
\* answers 401 and mints no access token, in every later state, whatever
\* its signature and expiry.
C2_RevokedRefreshIsRejected ==
    \A t \in revoked : \A clock \in Later :
        /\ t \in token_blacklist
        /\ RefreshOf(t, clock) = Response(401, "TOKEN_REVOKED")

\* refresh has answered TOKEN_REVOKED and the revoked token is a refresh
\* token that refresh would otherwise accept
C2_Witness ==
    /\ resp.op = "refresh" /\ resp.code = "TOKEN_REVOKED"
    /\ revoked # {}
    /\ \A t \in revoked :
          /\ t.payload.type = "refresh"
          /\ RefreshDecoded(users_db, now, nextJti, t).status = 200

\* C3: a token that verify rejects as revoked or as expired is rejected as
\* revoked or as expired after every step (the clock only moves forward),
\* and no step removes an entry of the revocation registry.  The answer of
\* verify is a function of the registry and the clock: only the steps that
\* change one of them are looked at.
C3_NoReturnToValid ==
    [][\/ UNCHANGED <<token_blacklist, now>>
       \/ /\ \A t \in Presentable :
                VerifyOf(t, now).code \in {"TOKEN_REVOKED", "TOKEN_EXPIRED"}
                   => VerifyResponse(token_blacklist', now', Bearer(t)).code
                          \in {"TOKEN_REVOKED", "TOKEN_EXPIRED"}
          /\ token_blacklist \subseteq token_blacklist']_vars

\* verify has answered TOKEN_EXPIRED for a token minted by login, and a
\* token is revoked
C3_Witness ==
    /\ resp.op = "verify" /\ resp.code = "TOKEN_EXPIRED"
    /\ \E t \in issued : t \notin token_blacklist
                         /\ JwtDecode(t, now) = "ExpiredSignatureError"
    /\ token_blacklist # {}

\* C4: of two register requests with the same email handled concurrently
\* exactly one is answered 201 (the other 409), and the store holds the
\* record of the request answered 201.
C4_OneRegistrationPerEmail ==
    \A r1 \in reg201 :
        /\ \A r2 \in reg201 : r1.email = r2.email => r1 = r2
        /\ r1.email \in DOMAIN users_db
        /\ users_db[r1.email].id = r1.user_id

\* login with a registered pair, at this instant
LoginOf(email, password) ==
    LoginResponse(users_db, now, nextJti, nextJti + 1,
                  Body(NoValue, email, password))

\* C5: for every (email, password) pair that register has answered 201 for,
\* login succeeds, and verify of the access token it returns, before the
\* expiry of the token and without its revocation, succeeds with user_id
\* the id given in the 201 answer.
C5_LoginThenVerify ==
    \A r \in reg201 :
        LET out == LoginOf(r.email, r.password)
        IN /\ out.status = 200
           /\ \A clock \in Later :
                 (clock < out.access_token.payload.exp
                  /\ out.access_token \notin token_blacklist)
                 => /\ VerifyOf(out.access_token, clock).status = 200
                    /\ VerifyOf(out.access_token, clock).user_id = r.user_id

\* the JWTs a client can send that are not revoked and whose exp is before
\* the clock
ExpiredNotRevoked ==
    {t \in Presentable : /\ t.form = "jwt"
                         /\ t \notin token_blacklist
                         /\ t.payload.exp < now}

\* C6 as stated: verify of a non-revoked token whose expires_at is before
\* the current time answers TOKEN_EXPIRED, whether its signature is correct
\* or not.
C6_ExpiredIsExpired ==
    \A t \in ExpiredNotRevoked : VerifyOf(t, now).code = "TOKEN_EXPIRED"

\* C6 as amended: verify of a non-revoked token whose expires_at is before
\* the current time never succeeds: it answers 401 TOKEN_EXPIRED when the
\* signature is correct and 401 INVALID_TOKEN when it is not.
C6_ExpiredIsNeverValid ==
    \A t \in ExpiredNotRevoked :
        VerifyOf(t, now) =
            Response(401, IF t.sig = "good" THEN "TOKEN_EXPIRED"
                          ELSE "INVALID_TOKEN")

\* verify has answered TOKEN_EXPIRED and a correctly signed token is past
\* its exp and not revoked
C6_Witness ==
    /\ resp.op = "verify" /\ resp.code = "TOKEN_EXPIRED"
    /\ \E t \in ExpiredNotRevoked : t.sig = "good"

\* C7: verify tests revocation before it decodes: a revoked token that
\* fails decoding (malformed, wrongly signed or expired) is answered
\* TOKEN_REVOKED, and the decode errors TOKEN_EXPIRED and INVALID_TOKEN are
\* answered only for tokens that are not revoked.
C7_RevocationBeforeDecode ==
    \A t \in Presentable :
        /\ (t \in token_blacklist /\ JwtDecode(t, now) # "ok")
              => VerifyOf(t, now) = Response(401, "TOKEN_REVOKED")
        /\ VerifyOf(t, now).code \in {"TOKEN_EXPIRED", "INVALID_TOKEN"}
              => t \notin token_blacklist

\* verify has answered TOKEN_REVOKED and every revoked token is malformed
\* or wrongly signed
C7_Witness ==
    /\ resp.op = "verify" /\ resp.code = "TOKEN_REVOKED"
    /\ token_blacklist # {}
    /\ \A t \in token_blacklist : t \in {MalformedToken, ForgedToken}

\* the correctly signed, unexpired, non-revoked tokens of the given type
ValidTokens(type) ==
    {t \in Presentable : /\ JwtDecode(t, now) = "ok"
                         /\ t \notin token_blacklist
                         /\ t.payload.type = type}

\* C8: refresh of a correctly signed, unexpired, non-revoked access token
\* answers 401 INVALID_TOKEN_TYPE and carries no token, also when its
\* subject is a registered user.
C8_AccessTokenIsNoRefreshToken ==
    \A t \in ValidTokens("access") :
        RefreshOf(t, now) = Response(401, "INVALID_TOKEN_TYPE")

\* refresh has answered INVALID_TOKEN_TYPE and there is a valid access token
\* of a user of the store
C8_Witness ==
    /\ resp.op = "refresh" /\ resp.code = "INVALID_TOKEN_TYPE"
    /\ \E t \in ValidTokens("access") : FindById(users_db, t.payload.sub) # {}

\* C9: refresh of a valid, unexpired, non-revoked refresh token whose
\* subject is the id of no record of the store answers 404 USER_NOT_FOUND
\* and carries no token.
C9_UnknownSubject ==
    \A t \in ValidTokens("refresh") :
        (\A e \in DOMAIN users_db : users_db[e].id # t.payload.sub)
            => RefreshOf(t, now) = Response(404, "USER_NOT_FOUND")

\* refresh has answered USER_NOT_FOUND while the store holds a record
C9_Witness ==
    /\ resp.op = "refresh" /\ resp.code = "USER_NOT_FOUND"
    /\ DOMAIN users_db # {}
    /\ \E t \in ValidTokens("refresh") :
          \A e \in DOMAIN users_db : users_db[e].id # t.payload.sub

C11_RevokeIdempotent ==
    \A t \in Presentable :
        LET once == BlacklistAdd(token_blacklist, t)
            twice == BlacklistAdd(once, t)
        IN /\ RevokeResponse(TokenBody(t)) = Response(200, "OK")
           /\ twice = once
           /\ t \in token_blacklist => once = token_blacklist

\* revoke has answered 200 for a token that was in the registry already
C11_Witness ==
    /\ resp.op = "revoke" /\ resp.status = 200 /\ resp.again
    /\ token_blacklist # {}

\* C12: revoke is unconditional: POST /revoke with any non-empty token
\* string and logout with any well-formed Bearer header answer 200 and the
\* string is in the registry afterwards, whether the token is valid,
\* expired, malformed, wrongly signed or already revoked; every string
\* answered 200 so far is in the registry.
C12_RevokeUnconditional ==
    /\ \A t \in Presentable :
          /\ RevokeResponse(TokenBody(t)) = Response(200, "OK")
          /\ LogoutResponse(Bearer(t)) = Response(200, "OK")
          /\ t \in BlacklistAdd(token_blacklist, t)
    /\ revoked \subseteq token_blacklist

\* logout has answered 200 and the registry holds a token that does not
\* decode: malformed, wrongly signed or expired
C12_Witness ==
    /\ resp.op = "logout" /\ resp.status = 200
    /\ \E t \in token_blacklist : JwtDecode(t, now) # "ok"

\* C13: introspect is fail-soft and agrees with verify: for every token
\* value supplied in the body the answer has status 200, with active true
\* exactly when verify of the same token in the same state answers 200, and
\* with the claims verify returns.
C13_IntrospectFailSoft ==
    \A data \in TokenBodies :
        (data.present /\ data.token # NoToken)
        => LET out == IntrospectResponse(token_blacklist, now, data)
               ver == VerifyOf(data.token, now)
           IN /\ out.status = 200
              /\ out.code = "ACTIVE" <=> ver.status = 200
              /\ out.code = "ACTIVE"
                    => /\ out.user_id = ver.user_id
                       /\ out.email = ver.email
                       /\ out.username = ver.username

\* C14: login answers an email that is not in the store and a stored email
\* with a wrong password with the same response, 401 INVALID_CREDENTIALS
\* and nothing else in it, whatever the password sent with the unknown
\* email and whether the stored record is active or not.
C14_LoginConstantShape ==
    \A unknown \in Emails \ DOMAIN users_db : \A known \in DOMAIN users_db :
        \A p \in Passwords : \A wrong \in Passwords \ {users_db[known].password} :
            /\ LoginOf(unknown, p) = LoginOf(known, wrong)
            /\ LoginOf(unknown, p) = Response(401, "INVALID_CREDENTIALS")

\* login has answered INVALID_CREDENTIALS in a state where one email is
\* registered and another is not
C14_Witness ==
    /\ resp.op = "login" /\ resp.code = "INVALID_CREDENTIALS"
    /\ DOMAIN users_db # {}
    /\ Emails \ DOMAIN users_db # {}

\* C15: login with the email and the password of a record whose is_active
\* is false answers 403 ACCOUNT_INACTIVE with no access token and no
\* refresh token in it.
C15_InactiveLogin ==
    \A e \in DOMAIN users_db :
        ~users_db[e].is_active
        => LoginOf(e, users_db[e].password) = Response(403, "ACCOUNT_INACTIVE")

\* login has answered ACCOUNT_INACTIVE and no token has been minted
C15_Witness ==
    /\ resp.op = "login" /\ resp.code = "ACCOUNT_INACTIVE"
    /\ \E e \in DOMAIN users_db : ~users_db[e].is_active
    /\ issued = {}

\* C16: the tokens minted in one run have pairwise different jti values,
\* all of them older than the next uuid; the two tokens of a login have the
\* same sub and different jti; and a login or a refresh made now returns
\* token strings that differ from every token minted so far, also from
\* those of the same user minted at the same instant.
C16_FreshTokenIds ==
    /\ \A t1 \in issued : \A t2 \in issued :
          t1.payload.jti = t2.payload.jti => t1 = t2
    /\ \A t \in issued : t.payload.jti < nextJti
    /\ \A e \in DOMAIN users_db :
          LET out == LoginOf(e, users_db[e].password)
          IN out.status = 200
             => /\ out.access_token.payload.sub = out.refresh_token.payload.sub
                /\ out.access_token.payload.jti # out.refresh_token.payload.jti
                /\ out.access_token \notin issued
                /\ out.refresh_token \notin issued
    /\ \A t \in Presentable :
          RefreshOf(t, now).status = 200
             => RefreshOf(t, now).access_token \notin issued

\* two access tokens have been minted for one user at one instant
C16_Witness ==
    /\ resp.status = 200 /\ resp.op \in {"login", "refresh"}
    /\ \E t1 \in issued : \E t2 \in issued :
          /\ t1 # t2
          /\ t1.payload.sub = t2.payload.sub
          /\ t1.payload.type = t2.payload.type
          /\ t1.payload.iat = t2.payload.iat

\* the claims a minted token must carry: type access with the email and
\* the username of the record user, or type refresh with neither
WellShaped(payload, user) ==
    \/ /\ payload.type = "access"
       /\ payload.email = user.email /\ payload.email # Absent
       /\ payload.username = user.username /\ payload.username # Absent
    \/ /\ payload.type = "refresh"
       /\ payload.email = Absent
       /\ payload.username = Absent

\* C17: every minted token has type access or refresh; a refresh token
\* carries no email and no username claim; an access token, of login or of
\* refresh, carries both, equal to the stored values of its subject when
\* it is minted.
C17_TokenClaims ==
    /\ \A t \in issued : \E e \in DOMAIN users_db :
          WellShaped(t.payload, users_db[e])
    /\ \A e \in DOMAIN users_db :
          LET out == LoginOf(e, users_db[e].password)
          IN out.status = 200
             => /\ out.access_token.payload.type = "access"
                /\ out.refresh_token.payload.type = "refresh"
                /\ out.access_token.payload.sub = users_db[e].id
                /\ out.refresh_token.payload.sub = users_db[e].id
                /\ WellShaped(out.access_token.payload, users_db[e])
                /\ WellShaped(out.refresh_token.payload, users_db[e])
    /\ \A t \in Presentable :
          RefreshOf(t, now).status = 200
             => \E e \in DOMAIN users_db :
                   LET minted == RefreshOf(t, now).access_token.payload
                   IN /\ users_db[e].id = t.payload.sub
                      /\ minted.sub = users_db[e].id
                      /\ minted.type = "access"
                      /\ WellShaped(minted, users_db[e])

\* login has minted its pair: an access token with email and username and
\* a refresh token with neither
C17_Witness ==
    /\ resp.op = "login" /\ resp.status = 200
    /\ \E t \in issued : t.payload.type = "access" /\ t.payload.email \in Emails
    /\ \E t \in issued : t.payload.type = "refresh" /\ t.payload.email = Absent

\* the answer of verify written from the token, the revocation registry
\* and the clock alone
VerifyExpected(t, bl, clock) ==
    IF t \in bl THEN Response(401, "TOKEN_REVOKED")
    ELSE IF t.form # "jwt" \/ t.sig # "good" THEN Response(401, "INVALID_TOKEN")
    ELSE IF t.payload.exp <= clock THEN Response(401, "TOKEN_EXPIRED")
    ELSE [Response(200, "OK") EXCEPT
             !.user_id = t.payload.sub, !.email = t.payload.email,
             !.username = t.payload.username]

\* the tokens whose subject is the id of no record of the store, or of a
\* record that is deactivated
Orphans ==
    {t \in Presentable :
        \A e \in DOMAIN users_db :
            users_db[e].id # t.payload.sub \/ ~users_db[e].is_active}

\* C18: verify does not consult the credential store: its answer for a
\* token is fixed by the token, the revocation registry and the clock, the
\* same in all states that differ in users_db only; a valid token whose
\* subject is absent from the store, replaced or deactivated is accepted.
C18_VerifyIgnoresStore ==
    /\ \A t \in Presentable :
          VerifyOf(t, now) = VerifyExpected(t, token_blacklist, now)
    /\ \A t \in Orphans :
          (t \notin token_blacklist /\ JwtDecode(t, now) = "ok")
             => VerifyOf(t, now).status = 200

\* verify has answered 200 while the store holds a record and the subject
\* of every valid token is the id of no active record
C18_Witness ==
    /\ resp.op = "verify" /\ resp.status = 200
    /\ DOMAIN users_db # {}
    /\ \A t \in Presentable :
          (t \notin token_blacklist /\ JwtDecode(t, now) = "ok") => t \in Orphans

\* the complete register bodies for the email, with the stored and with
\* other usernames and passwords
BodiesFor(email) ==
    {Body(u, email, p) : u \in {"alice", "bob", "mallory"}, p \in Passwords}

\* C19: register with an email that is in the store answers 409
\* USER_EXISTS whatever username and password the request carries, and the
\* step that answers 409 leaves the store as it is: the record keeps its
\* id, username, password and is_active.
C19_RegisterExistingEmail ==
    [][/\ \A e \in DOMAIN users_db : \A data \in BodiesFor(e) :
             RegisterCheckResponse(users_db, data) = Response(409, "USER_EXISTS")
       /\ (resp'.op = "register" /\ resp'.code = "USER_EXISTS")
             => users_db' = users_db]_vars

\* register has answered 409 and the store holds the record of the first
\* registration
C19_Witness ==
    /\ resp.op = "register" /\ resp.code = "USER_EXISTS"
    /\ \E e \in DOMAIN users_db :
          /\ users_db[e].id = 1
          /\ \E r \in reg201 : r.email = e /\ r.user_id = users_db[e].id

C22_RevocationPerToken ==
    \A u \in Presentable \ revoked : \A clock \in Later :
        LET out == RefreshOf(u, clock)
        IN /\ VerifyOf(u, clock) = VerifyResponse({}, clock, Bearer(u))
           /\ out = RefreshResponse(users_db, {}, clock, nextJti, TokenBody(u))
           /\ out.status = 200 =>
                 VerifyOf(out.access_token, clock).status = 200

\* the access token of a login is revoked, the refresh token of the same
\* login is not, and refresh has then answered 200 with a new access token
\* that verify accepts
C22_Witness ==
    /\ resp.op = "refresh" /\ resp.status = 200
    /\ \E a \in revoked, r \in Presentable \ revoked :
          /\ a.payload.type = "access" /\ r.payload.type = "refresh"
          /\ r.payload.sub = a.payload.sub /\ r.payload.iat = a.payload.iat
          /\ r.payload.jti = a.payload.jti + 1
          /\ RefreshOf(r, now).status = 200
    /\ \E t \in issued : VerifyOf(t, now).status = 200

\* C23: verify, introspect and refresh are read-only: whatever they answer,
\* a step of one of them leaves users_db and token_blacklist as they were;
\* a refresh answered 200 does not revoke its refresh token: every refresh
\* token that refresh accepts before the step it accepts after it, at every
\* instant at which the token has not expired.
C23_ReadOnly ==
    [][(resp' # resp /\ resp'.op \in {"verify", "introspect", "refresh"})
       => /\ users_db' = users_db
          /\ token_blacklist' = token_blacklist
          /\ \A r \in Presentable : \A clock \in now..MaxTime :
                RefreshOf(r, clock).status = 200
                => RefreshResponse(users_db', token_blacklist', clock,
                                   nextJti', TokenBody(r)).status = 200]_vars

\* refresh has answered 200 twice for the same refresh token, which is
\* still accepted
C23_Witness ==
    /\ resp.op = "refresh" /\ resp.status = 200
    /\ Cardinality({t \in issued : t.payload.type = "access"}) >= 2
    /\ \E r \in Presentable : RefreshOf(r, now).status = 200
    /\ token_blacklist = {}

\* C24: verify does not look at the token type.  A refresh token that is
\* correctly signed, unexpired and not revoked gets 200 from verify, with
\* the user id of its sub claim and with email and username absent.
C24_VerifyAcceptsRefreshToken ==
    \A t \in Presentable \ token_blacklist : \A clock \in Later :
        (t.payload.type = "refresh" /\ JwtDecode(t, clock) = "ok")
        => VerifyOf(t, clock) =
              [Response(200, "OK") EXCEPT !.user_id = t.payload.sub]

\* verify has answered 200 while the only token that is valid at any
\* instant is a refresh token
C24_Witness ==
    /\ resp.op = "verify" /\ resp.status = 200
    /\ issued = {}
    /\ LegacyRefresh \notin token_blacklist
    /\ \A t \in Presentable \ {LegacyRefresh} : \A clock \in 1..MaxTime :
          JwtDecode(t, clock) # "ok"

\* C25: no handler of the auth service sets is_active to false, and the
\* user service does not reach the auth store.  In every state the auth
\* users_db is what register made it, whatever delete_user has done: its
\* keys are the emails registered, every record is one that register
\* stored and has is_active true, and login answers no request with 403
\* ACCOUNT_INACTIVE.
C25_AuthStoreStaysActive ==
    /\ DOMAIN users_db = {g.email : g \in reg201}
    /\ \A e \in DOMAIN users_db :
          /\ users_db[e].is_active
          /\ \E g \in reg201 :
                /\ g.email = e /\ g.user_id = users_db[e].id
                /\ g.password = users_db[e].password
    /\ \A data \in LoginBodies :
          LoginResponse(users_db, now, nextJti, nextJti + 1,
                        data).status # 403
    /\ resp.code # "ACCOUNT_INACTIVE"

\* the user service holds a deactivated record, the auth store holds a
\* record, and login has answered 200
C25_Witness ==
    /\ user_resp.op = "delete_user" /\ user_resp.status = 200
    /\ \E k \in DOMAIN user_routes_users_db :
          ~user_routes_users_db[k].is_active
    /\ DOMAIN users_db # {}
    /\ resp.op = "login" /\ resp.status = 200

\* C29: the emails of the user service stay unique when requests are
\* handled one after the other.  After every step no two records of
\* users_db share an email; an admin_create_user whose email is that of a
\* stored record, active or deactivated, is answered 409 and adds nothing;
\* no step changes the email of a stored record.
C29_EmailsStayUnique ==
    [][/\ \A k1, k2 \in DOMAIN user_routes_users_db' :
             user_routes_users_db'[k1].email = user_routes_users_db'[k2].email
             => k1 = k2
       /\ \A data \in CreateBodies :
             (/\ AdminCreateUser(data)
              /\ "email" \in DOMAIN data
              /\ \E k \in DOMAIN user_routes_users_db :
                    user_routes_users_db[k].email = data["email"])
             => /\ user_resp'.status \in {400, 409}
                /\ required_fields \subseteq DOMAIN data
                   => user_resp'.status = 409
                /\ user_routes_users_db' = user_routes_users_db
       /\ \A k \in DOMAIN user_routes_users_db :
             /\ k \in DOMAIN user_routes_users_db'
             /\ user_routes_users_db'[k].email =
                   user_routes_users_db[k].email]_vars

\* a user was created, every record was then deactivated, and a further
\* admin_create_user was answered 409 DUPLICATE_EMAIL
C29_Witness ==
    /\ user_resp.op = "admin_create_user"
    /\ user_resp.code = "DUPLICATE_EMAIL"
    /\ Cardinality(DOMAIN user_routes_users_db) > Cardinality(DOMAIN SeedUsers)
    /\ \A k \in DOMAIN user_routes_users_db :
          ~user_routes_users_db[k].is_active

\* C30: in every reachable state of the user service the role of every
\* record of users_db is one of 'user', 'admin', 'moderator', 'viewer'.
C30_RolesAreValid ==
    \A k \in DOMAIN user_routes_users_db :
        user_routes_users_db[k].role \in valid_roles

\* the answer to a request for a trade that is not pending: nothing stored
Refused(code) == Result(TradeResponse(400, code), trades_db)

\* C26: the status of a trade changes in one way only, from 'pending' to
\* 'cancelled' and by a close answered 200.  modify and close of a trade
\* that is not pending are answered 400 and change nothing, so no trade
\* leaves 'executed' or 'cancelled' and none becomes 'pending' again.
C26_StatusOnlyPendingToCancelled ==
    [][\A k \in DOMAIN trades_db :
          /\ k \in DOMAIN trades_db'
          /\ trades_db'[k].status # trades_db[k].status
             => /\ trades_db[k].status = "pending"
                /\ trades_db'[k].status = "cancelled"
                /\ trade_resp'.op = "close_trade"
                /\ trade_resp'.status = 200
          /\ trades_db[k].status # "pending"
             => /\ CloseTradeResult(trades_db, now, k) =
                      Refused("TRADE_NOT_CLOSABLE")
                /\ ModifyTradeResult(
                       trades_db, now,
                       ModifyBody(JStr(k),
                                  QuantityAndPrice(JInt(30), JFloat(40000)))) =
                      Refused("TRADE_NOT_MODIFIABLE")]_vars

\* a trade was created and closed, the pending seed trade was closed, and
\* a further close was answered 400: no trade is pending
C26_Witness ==
    /\ trade_resp.op = "close_trade"
    /\ trade_resp.code = "TRADE_NOT_CLOSABLE"
    /\ Cardinality(DOMAIN trades_db) > Cardinality(DOMAIN SeedTrades)
    /\ \A k \in DOMAIN trades_db : trades_db[k].status # "pending"
    /\ trades_db["trade-003"].status = "cancelled"

\* C27: a modify request answered 400 or 404 leaves trades_db as it was,
\* in every field of every trade.
C27_FailedModifyChangesNothing ==
    [][\A data \in ModifyBodies :
          (ModifyTrade(data) /\ trade_resp'.status \in {400, 404})
          => trades_db' = trades_db]_vars

\* C28: every stored trade has total_value = price * quantity and a
\* quantity that is a positive integer.
C28_TotalValueIsPriceTimesQuantity ==
    \A k \in DOMAIN trades_db :
        /\ trades_db[k].total_value =
              trades_db[k].price * trades_db[k].quantity
        /\ trades_db[k].quantity \in Nat \ {0}

\* the requests in which something fails unexpectedly inside a handler of
\* the auth service or of the trade service, and the answers to them
FailedElsewhere ==
    {RefreshOf(ListToken, now),
     IntrospectResponse(token_blacklist, now, TokenBody(ListToken)),
     RevokeResponse(TokenBody(ListToken)),
     CreateTradeResponse(NewTradeId(next_trade), HeaderUser(NoValue),
                         TradeBody(JStr("aapl"), JStr("buy"), JInt(10),
                                   PriceOf(JNull))),
     ModifyTradeResult(trades_db, now, ModifyBody(JList, EmptyDict)).out}

\* C21: every request handler answers an unexpected failure inside it with
\* 500 INTERNAL_ERROR: whatever the request and the state, the handler
\* returns a response and no exception leaves it.
C21_FailuresAreAnswered500 ==
    [][/\ user_resp'.code # "UNCAUGHT"
       /\ \A fails \in BOOLEAN :
             (fails /\ (\/ HealthCheck(fails)
                        \/ Version(fails)
                        \/ ReadinessCheck(fails)))
             => user_resp'.status = 500 /\ user_resp'.code = "INTERNAL_ERROR"
       /\ \A out \in FailedElsewhere :
             out.status = 500 /\ out.code = "INTERNAL_ERROR"]_vars
====
